---- MODULE Spec2Model ----
(***************************************************************************)
(* Inventory reservation of the travel booking system: bus seats, hotel    *)
(* rooms, cars and train seats, with the cancellation paths that release   *)
(* them.  Every request handler is a process that advances one database    *)
(* statement at a time; transaction.atomic blocks hold the row locks taken *)
(* by select_for_update until they commit.  The database is modelled as    *)
(* one that honours select_for_update (row locks, READ COMMITTED: a        *)
(* statement that waited for a lock sees the committed rows).              *)
(***************************************************************************)
EXTENDS Integers, Sequences, FiniteSets, TLC

\* ------------------------------------------------------------------ bounds
NumProcs == 2
NumBusSeats == 1
MaxBusRequests == 2
MaxRooms == 2
MaxRoomCalls == 3
NumCars == 1
NumTrainSeats == 1
NumStops == 2
MaxTrainBookings == 3
NumQueueStops == 3
MaxConfirmed == 72
MaxQueued == 72
MaxPassengers == 2
MaxRefundHours == 169
MaxAmount == 2
MaxBalance == 3
MaxWalletTransactions == 2
MaxMinutes == 16

Procs == 1..NumProcs

\* today's date; travel dates are day numbers, 0 is yesterday
Today == 1
TravelDates == 0..2

VARIABLES
    bus_seats,      \* BusSeat rows of one bus: seat_number -> is_booked, is_blocked
    bus_bookings,   \* BusBooking rows, in creation order
    bus_txn,        \* per request: the row locks its open transaction holds
    bus_pc,         \* per request: position in its handler
    bus_req,        \* per request: the handler's local variables
    bus_grants,     \* per seat: successful book_seats returns since it was last released
    bus_started     \* number of booking requests received

bus_vars == <<bus_seats, bus_bookings, bus_txn, bus_pc, bus_req, bus_grants, bus_started>>

VARIABLES
    hotel_room,     \* one HotelRoom row: total_rooms, available_rooms
    bookings,       \* Booking rows by id; status "NONE" when the row does not exist
    hotel_txn,      \* per request: the row locks its open transaction holds
    hotel_pc,       \* per request: position in its handler
    hotel_req,      \* per request: the handler's local variables
    hotel_room0     \* available_rooms before the first call

hotel_vars == <<hotel_room, bookings, hotel_txn, hotel_pc, hotel_req, hotel_room0>>

VARIABLES
    room_log        \* direct reserve_rooms / release_rooms calls, in call order

room_vars == <<room_log>>

VARIABLES
    cars,           \* Car rows: car id -> status
    car_pc,         \* per request: position in its handler
    car_req         \* per request: the handler's local variables

car_vars == <<cars, car_pc, car_req>>

VARIABLES
    train_seats,            \* Seat rows of one coach: seat_number -> is_booked, is_blocked
    coach_available_seats,  \* Coach.available_seats
    train_bookings,         \* TrainBooking rows by id; status "NONE" when the row does not exist
    train_txn,              \* per request: its open transaction holds the Train row lock
    train_pc,               \* per request: position in its handler
    train_req,              \* per request: the handler's local variables
    train_grants            \* per seat: successful book_seats returns naming it

train_vars == <<train_seats, coach_available_seats, train_bookings, train_txn, train_pc,
                train_req, train_grants>>

VARIABLES
    refund,         \* the last calculate_refund_amount call: its arguments and outcome
    journey,        \* one journey: its numbers of CONFIRMED, RAC and WAITLIST bookings,
                    \* and the last answer of check_rac_or_waitlist
    confirm,        \* per request: its confirm_booking / Booking.confirm call
    history,        \* per Booking: the BookingHistory rows PENDING -> CONFIRMED
    cancel,         \* per request: the Booking instance it read and its Booking.cancel call
    cancellation,   \* per Booking: the columns cancellation_date and refund_amount
    payment,        \* one Payment row: its status and amount
    refunds,        \* the Refund rows of the payment: their amounts, in order of creation
    refund_request, \* per request: the Payment instance it read and its initiate_refund call
    wallet,         \* one Wallet row: its balance
    wallet_transactions,  \* the WalletTransaction rows of the wallet, in order of creation
    wallet_call,    \* per request: the Wallet instance it read and its last credit / debit
    clock,          \* minutes since the start of the run
    block           \* per BusSeat: the block_seats call that blocked it, and its time

refund_vars == <<refund>>
limit_vars == <<journey>>
confirm_vars == <<confirm, history>>
cancel_vars == <<cancel, cancellation>>
payment_vars == <<payment, refunds, refund_request>>
wallet_vars == <<wallet, wallet_transactions, wallet_call>>
block_vars == <<clock, block>>
call_vars == <<refund_vars, limit_vars, confirm_vars, cancel_vars, payment_vars, wallet_vars,
               block_vars>>

vars == <<bus_vars, hotel_vars, room_vars, car_vars, train_vars, call_vars>>

\* what the handlers of one service leave alone
not_bus == <<hotel_vars, room_vars, car_vars, train_vars, call_vars>>
not_hotel == <<bus_vars, room_vars, car_vars, train_vars, call_vars>>
not_room == <<bookings, hotel_txn, hotel_pc, hotel_req, hotel_room0, bus_vars, car_vars, train_vars, call_vars>>
not_car == <<hotel_room, hotel_txn, hotel_pc, hotel_req, hotel_room0, bus_vars, room_vars, train_vars, call_vars>>
not_train == <<bus_vars, hotel_vars, room_vars, car_vars, call_vars>>
not_refund == <<bus_vars, hotel_vars, room_vars, car_vars, train_vars, limit_vars, confirm_vars,
                cancel_vars, payment_vars, wallet_vars, block_vars>>
not_limit == <<bus_vars, hotel_vars, room_vars, car_vars, train_vars, refund_vars, confirm_vars,
               cancel_vars, payment_vars, wallet_vars, block_vars>>
not_confirm == <<hotel_room, hotel_txn, hotel_pc, hotel_req, hotel_room0, bus_vars, room_vars,
                 car_vars, train_vars, refund_vars, limit_vars, cancel_vars, payment_vars,
                 wallet_vars, block_vars>>
not_cancel == <<hotel_room, hotel_txn, hotel_pc, hotel_req, hotel_room0, bus_vars, room_vars,
                car_vars, train_vars, refund_vars, limit_vars, confirm_vars, payment_vars,
                wallet_vars, block_vars>>
not_payment == <<bus_vars, hotel_vars, room_vars, car_vars, train_vars, refund_vars, limit_vars,
                 confirm_vars, cancel_vars, wallet_vars, block_vars>>
not_wallet == <<bus_vars, hotel_vars, room_vars, car_vars, train_vars, refund_vars, limit_vars,
                confirm_vars, cancel_vars, payment_vars, block_vars>>
not_block == <<bus_bookings, bus_txn, bus_pc, bus_req, bus_grants, bus_started, hotel_vars,
               room_vars, car_vars, train_vars, refund_vars, limit_vars, confirm_vars,
               cancel_vars, payment_vars, wallet_vars>>

\* ------------------------------------------------------------ row locking
\* select_for_update: the statement proceeds once no other transaction
\* holds a lock on the rows; holders is the set of requests holding one.
RowLockFree_NoLock(holders, p) == TRUE

RowLockFree(holders, p) == holders \subseteq {p}

\* ------------------------------------------------------------- car rows
\* Every request makes one call; booking p is the one request p creates.
CarIds == 1..NumCars
\* the car_id a form can carry: the last one is no Car row
RequestCarIds == 1..(NumCars + 1)

NoCarReq == [kind |-> "none", car |-> 0, booking |-> -1, can_cancel |-> FALSE,
             overlapped |-> FALSE]

CarStart ==
    /\ cars = [c \in CarIds |-> "AVAILABLE"]
    /\ car_pc = [p \in Procs |-> "idle"]
    /\ car_req = [p \in Procs |-> NoCarReq]

\* ----------------------------------------------------------- train rows
\* TrainBooking rows get the smallest id not yet in use when they are created.
TrainSeatNumbers == 1..NumTrainSeats
TrainBookingIds == 1..MaxTrainBookings
\* TrainStop.sequence of the stops of the train
StopSequences == 1..NumStops
\* the stops that the requests served one after the other travel between
QueueStopSequences == 1..NumQueueStops

\* position is the position check_rac_or_waitlist answered for the booking;
\* the TrainBooking row itself has no column for it
NoTrainBooking == [seats_booked |-> {}, total_passengers |-> 0, from_sequence |-> 0,
                   to_sequence |-> 0, travel_date |-> 0, status |-> "NONE",
                   position |-> 0]
NoTrainReq == [kind |-> "none", seats |-> {}, num_passengers |-> 0, from_sequence |-> 0,
               to_sequence |-> 0, travel_date |-> 0, booking |-> 0, overlapped |-> FALSE]

TrainStart ==
    /\ train_seats = [s \in TrainSeatNumbers |-> [is_booked |-> FALSE, is_blocked |-> FALSE]]
    /\ coach_available_seats = NumTrainSeats
    /\ train_bookings = [b \in TrainBookingIds |-> NoTrainBooking]
    /\ train_txn = [p \in Procs |-> FALSE]
    /\ train_pc = [p \in Procs |-> "idle"]
    /\ train_req = [p \in Procs |-> NoTrainReq]
    /\ train_grants = [s \in TrainSeatNumbers |-> 0]

\* ------------------------------------------------------------ refund call
NoRefundCall == [called |-> FALSE, service_type |-> "NONE", total_amount |-> 0,
                 hours_before |-> 0, raised |-> FALSE, refund_x2 |-> 0]

RefundStart == refund = NoRefundCall

\* ---------------------------------------------------------- journey counts
NoJourney == [confirmed_bookings |-> 0, rac_bookings |-> 0, waitlist_bookings |-> 0,
              answer |-> "NONE"]

LimitStart == journey = NoJourney

\* ---------------------------------------------------------- confirm calls
NoConfirm == [pc |-> "idle", kind |-> "none", booking |-> -1, lock |-> FALSE,
              result |-> "none"]

ConfirmStart ==
    /\ confirm = [p \in Procs |-> NoConfirm]
    /\ history = [b \in 0..NumProcs |-> 0]

\* ----------------------------------------------------------- cancel calls
NoCancel == [pc |-> "idle", booking |-> -1, status |-> "NONE", days_before |-> 0,
             result |-> "none"]

CancelStart ==
    /\ cancel = [p \in Procs |-> NoCancel]
    /\ cancellation = [b \in 0..NumProcs |-> [cancellation_date |-> "NULL", refund_amount |-> 0]]

\* ---------------------------------------------------------- payment rows
\* Payment.amount of the payment of these runs
PaymentAmount == MaxAmount
NoRefundRequest == [pc |-> "idle", status |-> "NONE", amount |-> 0, refund_amount |-> 0,
                    result |-> "none"]

PaymentStart ==
    /\ payment = [status |-> "COMPLETED", amount |-> PaymentAmount]
    /\ refunds = <<>>
    /\ refund_request = [p \in Procs |-> NoRefundRequest]

\* ----------------------------------------------------------- wallet rows
NoWalletCall == [pc |-> "idle", balance |-> 0, method |-> "none", amount |-> 0,
                 result |-> "none"]

WalletStart ==
    /\ wallet = [balance |-> 0]
    /\ wallet_transactions = <<>>
    /\ wallet_call = [p \in Procs |-> NoWalletCall]

\* ------------------------------------------------------------ seat blocks
NoBlock == [called |-> FALSE, block_duration_minutes |-> 0, at |-> 0]

BlockStart ==
    /\ clock = 0
    /\ block = [s \in 1..NumBusSeats |-> NoBlock]

CallStart ==
    /\ RefundStart /\ LimitStart /\ ConfirmStart /\ CancelStart /\ PaymentStart /\ WalletStart
    /\ BlockStart

\* =====================================================================
\* Buses
\* =====================================================================
BusSeatNumbers == 1..NumBusSeats
\* seat numbers a request may name; the last one is not a seat of the bus
RequestSeatNumbers == 1..(NumBusSeats + 1)
SeatLists == SUBSET RequestSeatNumbers \ {{}}

NoBusTxn == [bus |-> FALSE, rows |-> {}]
NoBusReq == [seats |-> {}, travel_date |-> Today, booking |-> 0, success |-> "none",
             overlapped |-> FALSE]

BusLockHolders == {q \in Procs : bus_txn[q].bus}
BusSeatLockHolders(S) == {q \in Procs : bus_txn[q].rows \cap S # {}}

\* BusSeat.is_available
BusSeatIsAvailable(s) == ~(bus_seats[s].is_booked \/ bus_seats[s].is_blocked)

BusFreeRows_IgnoreBooked(seat_numbers) ==
    {s \in seat_numbers \cap BusSeatNumbers : ~bus_seats[s].is_blocked}

\* the rows matched by filter(seat_number__in=..., is_booked=False, is_blocked=False)
BusFreeRows(seat_numbers) == {s \in seat_numbers \cap BusSeatNumbers : BusSeatIsAvailable(s)}

BusStart ==
    /\ bus_seats = [s \in BusSeatNumbers |-> [is_booked |-> FALSE, is_blocked |-> FALSE]]
    /\ bus_bookings = <<>>
    /\ bus_txn = [p \in Procs |-> NoBusTxn]
    /\ bus_pc = [p \in Procs |-> "idle"]
    /\ bus_req = [p \in Procs |-> NoBusReq]
    /\ bus_grants = [s \in RequestSeatNumbers |-> 0]
    /\ bus_started = 0

\* the requests that are inside book_seats
InBookSeats == {q \in Procs : bus_pc[q] \in {"bs_lock", "bs_select", "bs_update"}}

\* BusBookingView.form_valid: the request arrives and calls SeatManager.book_seats
BookSeatsBegin(p, seat_numbers, travel_date) ==
    /\ bus_pc[p] = "idle"
    /\ bus_started < MaxBusRequests
    /\ bus_req' = [bus_req EXCEPT ![p] = [seats |-> seat_numbers, travel_date |-> travel_date,
                                          booking |-> 0, success |-> "none",
                                          overlapped |-> InBookSeats # {}]]
    /\ bus_pc' = [bus_pc EXCEPT ![p] = "bs_lock"]
    /\ bus_started' = bus_started + 1
    /\ UNCHANGED <<bus_seats, bus_bookings, bus_txn, bus_grants, not_bus>>

\* book_seats: Bus.objects.select_for_update().get(id=bus_id)
BookSeatsLockBus(p) ==
    /\ bus_pc[p] = "bs_lock"
    /\ RowLockFree(BusLockHolders, p)
    /\ bus_txn' = [bus_txn EXCEPT ![p].bus = TRUE]
    /\ bus_pc' = [bus_pc EXCEPT ![p] = "bs_select"]
    /\ UNCHANGED <<bus_seats, bus_bookings, bus_req, bus_grants, bus_started, not_bus>>

\* book_seats: the date check, the locking seat query and the availability check
BookSeatsSelect(p) ==
    /\ bus_pc[p] = "bs_select"
    /\ IF bus_req[p].travel_date < Today
       THEN /\ bus_txn' = [bus_txn EXCEPT ![p] = NoBusTxn]
            /\ bus_req' = [bus_req EXCEPT ![p].success = "no"]
            /\ bus_pc' = [bus_pc EXCEPT ![p] = "fv_invalid"]
       ELSE LET seats == BusFreeRows(bus_req[p].seats)
                unavailable_seats == bus_req[p].seats \ seats
            IN  /\ RowLockFree(BusSeatLockHolders(seats), p)
                /\ IF unavailable_seats # {}
                   THEN /\ bus_txn' = [bus_txn EXCEPT ![p] = NoBusTxn]
                        /\ bus_req' = [bus_req EXCEPT ![p].success = "no"]
                        /\ bus_pc' = [bus_pc EXCEPT ![p] = "fv_invalid"]
                   ELSE /\ bus_txn' = [bus_txn EXCEPT ![p].rows = seats]
                        /\ bus_pc' = [bus_pc EXCEPT ![p] = "bs_update"]
                        /\ UNCHANGED bus_req
    /\ UNCHANGED <<bus_seats, bus_bookings, bus_grants, bus_started, not_bus>>

\* book_seats: seats.update(is_booked=True), return success, commit
BookSeatsUpdate(p) ==
    /\ bus_pc[p] = "bs_update"
    /\ LET rows == BusFreeRows(bus_req[p].seats)
       IN  bus_seats' = [s \in BusSeatNumbers |->
                            IF s \in rows THEN [bus_seats[s] EXCEPT !.is_booked = TRUE]
                            ELSE bus_seats[s]]
    /\ bus_grants' = [s \in RequestSeatNumbers |->
                         IF s \in bus_req[p].seats THEN bus_grants[s] + 1 ELSE bus_grants[s]]
    /\ bus_txn' = [bus_txn EXCEPT ![p] = NoBusTxn]
    /\ bus_req' = [bus_req EXCEPT ![p].success = "yes"]
    /\ bus_pc' = [bus_pc EXCEPT ![p] = "fv_create"]
    /\ UNCHANGED <<bus_bookings, bus_started, not_bus>>

\* form_valid: BusBooking.objects.create(..., status=PENDING)
FormValidCreateBusBooking(p) ==
    /\ bus_pc[p] = "fv_create"
    /\ bus_bookings' = Append(bus_bookings, [seats_booked |-> bus_req[p].seats,
                                             travel_date |-> bus_req[p].travel_date,
                                             status |-> "PENDING"])
    /\ bus_pc' = [bus_pc EXCEPT ![p] = "idle"]
    /\ bus_req' = [bus_req EXCEPT ![p] = NoBusReq]
    /\ UNCHANGED <<bus_seats, bus_txn, bus_grants, bus_started, not_bus>>

\* form_valid: book_seats returned failure; the form is shown again with the error
FormInvalidBus(p) ==
    /\ bus_pc[p] = "fv_invalid"
    /\ bus_pc' = [bus_pc EXCEPT ![p] = "idle"]
    /\ bus_req' = [bus_req EXCEPT ![p] = NoBusReq]
    /\ UNCHANGED <<bus_seats, bus_bookings, bus_txn, bus_grants, bus_started, not_bus>>

\* cancel_bus_booking: get_object_or_404(status__in=[PENDING, CONFIRMED])
CancelBusBookingGet(p, b) ==
    /\ bus_pc[p] = "idle"
    /\ b \in 1..Len(bus_bookings)
    /\ bus_bookings[b].status \in {"PENDING", "CONFIRMED"}
    /\ bus_req' = [bus_req EXCEPT ![p] = [seats |-> bus_bookings[b].seats_booked,
                                          travel_date |-> bus_bookings[b].travel_date,
                                          booking |-> b, success |-> "none",
                                          overlapped |-> FALSE]]
    /\ bus_pc' = [bus_pc EXCEPT ![p] = "cb_save"]
    /\ UNCHANGED <<bus_seats, bus_bookings, bus_txn, bus_grants, bus_started, not_bus>>

\* BusBooking.cancel_booking: status = CANCELLED; self.save()
CancelBookingSave(p) ==
    /\ bus_pc[p] = "cb_save"
    /\ bus_bookings' = [bus_bookings EXCEPT ![bus_req[p].booking].status = "CANCELLED"]
    /\ bus_pc' = [bus_pc EXCEPT ![p] = "cb_release"]
    /\ UNCHANGED <<bus_seats, bus_txn, bus_req, bus_grants, bus_started, not_bus>>

ReleasedRows_WrongFlag(seat_numbers) ==
    {s \in seat_numbers \cap BusSeatNumbers : ~bus_seats[s].is_booked}

\* the rows release_seats updates: filter(seat_number__in=..., is_booked=True)
ReleasedRows(seat_numbers) == {s \in seat_numbers \cap BusSeatNumbers : bus_seats[s].is_booked}

\* SeatManager.release_seats, called at the end of cancel_booking
ReleaseSeats(p) ==
    /\ bus_pc[p] = "cb_release"
    /\ LET rows == ReleasedRows(bus_req[p].seats)
       IN  /\ RowLockFree(BusSeatLockHolders(rows), p)
           /\ bus_seats' = [s \in BusSeatNumbers |->
                               IF s \in rows THEN [bus_seats[s] EXCEPT !.is_booked = FALSE]
                               ELSE bus_seats[s]]
    /\ bus_grants' = [s \in RequestSeatNumbers |->
                         IF s \in bus_req[p].seats THEN 0 ELSE bus_grants[s]]
    /\ bus_pc' = [bus_pc EXCEPT ![p] = "idle"]
    /\ bus_req' = [bus_req EXCEPT ![p] = NoBusReq]
    /\ UNCHANGED <<bus_bookings, bus_txn, bus_started, not_bus>>

\* BusBookingAdmin.confirm_bookings: queryset.update(status='CONFIRMED')
ConfirmBookings(b) ==
    /\ b \in 1..Len(bus_bookings)
    /\ bus_bookings[b].status # "CONFIRMED"
    /\ bus_bookings' = [bus_bookings EXCEPT ![b].status = "CONFIRMED"]
    /\ UNCHANGED <<bus_seats, bus_txn, bus_pc, bus_req, bus_grants, bus_started, not_bus>>

\* =====================================================================
\* Hotels
\* =====================================================================
\* Booking 0 was made before the requests modelled here; booking p is the
\* one request p creates.  Every request makes one service call.
BookingIds == 0..NumProcs
RoomCounts == 1..MaxRooms

NoBooking == [service_type |-> "NONE", service_id |-> 0, rooms |-> 0, status |-> "NONE"]
NoHotelTxn == [room |-> FALSE, booking |-> -1]
NoHotelReq == [kind |-> "none", rooms |-> 0, nights |-> 0, booking |-> -1,
               available_rooms |-> 0, overlapped |-> FALSE]

HotelStart(total, earlier, available) ==
    /\ hotel_room = [total_rooms |-> total, available_rooms |-> available]
    /\ bookings = [b \in BookingIds |->
                      IF b = 0 /\ earlier > 0
                      THEN [service_type |-> "HOTEL", service_id |-> 0, rooms |-> earlier,
                            status |-> "PENDING"]
                      ELSE NoBooking]
    /\ hotel_txn = [p \in Procs |-> NoHotelTxn]
    /\ hotel_pc = [p \in Procs |-> "idle"]
    /\ hotel_req = [p \in Procs |-> NoHotelReq]
    /\ hotel_room0 = available
    /\ room_log = <<>>

\* HotelRoom.reserve_rooms: the new available_rooms and the return value
ReserveRooms(available_rooms, count) ==
    IF available_rooms >= count THEN available_rooms - count ELSE available_rooms

ReserveRoomsReturn(available_rooms, count) == available_rooms >= count

ReleaseRooms_NoCap(available_rooms, total_rooms, count) == available_rooms + count

\* HotelRoom.release_rooms: the new available_rooms
ReleaseRooms(available_rooms, total_rooms, count) ==
    IF available_rooms + count > total_rooms THEN total_rooms ELSE available_rooms + count

HotelRoomLockHolders == {q \in Procs : hotel_txn[q].room}
BookingLockHolders(b) == {q \in Procs : hotel_txn[q].booking = b}

\* the requests that are inside a HotelBookingService call
InHotelService == {q \in Procs : hotel_pc[q] \in
    {"create_lock", "create_commit", "cancel_lock", "cancel_read", "cancel_finish"}}

\* HotelBookingView.form_valid: the request calls HotelBookingService.create_booking
CreateBookingBegin(p, rooms, nights) ==
    /\ hotel_pc[p] = "idle"
    /\ hotel_req' = [hotel_req EXCEPT ![p] = [kind |-> "create", rooms |-> rooms,
                                              nights |-> nights, booking |-> p,
                                              available_rooms |-> 0,
                                              overlapped |-> InHotelService # {}]]
    /\ hotel_pc' = [hotel_pc EXCEPT ![p] = "create_lock"]
    /\ UNCHANGED <<hotel_room, bookings, hotel_txn, hotel_room0, not_hotel>>

\* create_booking: HotelRoom.objects.select_for_update().get(..., available_rooms__gte=rooms)
CreateBookingLockRoom(p) ==
    /\ hotel_pc[p] = "create_lock"
    /\ hotel_room.available_rooms >= hotel_req[p].rooms => RowLockFree(HotelRoomLockHolders, p)
    /\ IF hotel_room.available_rooms >= hotel_req[p].rooms
       THEN /\ hotel_txn' = [hotel_txn EXCEPT ![p].room = TRUE]
            /\ hotel_req' = [hotel_req EXCEPT ![p].available_rooms = hotel_room.available_rooms]
            /\ hotel_pc' = [hotel_pc EXCEPT ![p] = "create_commit"]
       ELSE /\ hotel_pc' = [hotel_pc EXCEPT ![p] = "failed"]
            /\ UNCHANGED <<hotel_txn, hotel_req>>
    /\ UNCHANGED <<hotel_room, bookings, hotel_room0, not_hotel>>

\* create_booking: the nights check, Booking.objects.create, reserve_rooms, commit
CreateBookingCommit(p) ==
    /\ hotel_pc[p] = "create_commit"
    /\ IF hotel_req[p].nights <= 0
       THEN /\ hotel_pc' = [hotel_pc EXCEPT ![p] = "failed"]
            /\ UNCHANGED <<hotel_room, bookings>>
       ELSE /\ bookings' = [bookings EXCEPT ![hotel_req[p].booking] =
                               [service_type |-> "HOTEL", service_id |-> 0, rooms |-> hotel_req[p].rooms,
                                status |-> "PENDING"]]
            /\ hotel_room' = [hotel_room EXCEPT !.available_rooms =
                                 ReserveRooms(hotel_req[p].available_rooms, hotel_req[p].rooms)]
            /\ hotel_pc' = [hotel_pc EXCEPT ![p] = "created"]
    /\ hotel_txn' = [hotel_txn EXCEPT ![p] = NoHotelTxn]
    /\ UNCHANGED <<hotel_req, hotel_room0, not_hotel>>

\* cancel_booking, line 263: booking.check_in_date is a date (DateField read
\* back from the database) and timezone.now() a datetime; Python refuses to
\* subtract them and raises TypeError.
DateMinusDatetimeRaises_Never == FALSE

DateMinusDatetimeRaises == TRUE

\* booking_post_save reads instance.tracker on every save of an existing
\* Booking; the FieldTracker is commented out, so the handler raises
\* AttributeError after the row was written.
BookingPostSaveRaises == TRUE

CancelBookingOutcome_NoException == "released"

\* how far cancel_booking gets once it holds the booking and has read the room
CancelBookingOutcome ==
    IF DateMinusDatetimeRaises THEN "TypeError"
    ELSE IF BookingPostSaveRaises THEN "AttributeError"
    ELSE "released"

\* a caller asks HotelBookingService.cancel_booking to cancel booking b
CancelBookingBegin(p, b) ==
    /\ hotel_pc[p] = "idle"
    /\ hotel_req' = [hotel_req EXCEPT ![p] = [kind |-> "cancel", rooms |-> 0, nights |-> 0,
                                              booking |-> b, available_rooms |-> 0,
                                              overlapped |-> InHotelService # {}]]
    /\ hotel_pc' = [hotel_pc EXCEPT ![p] = "cancel_lock"]
    /\ UNCHANGED <<hotel_room, bookings, hotel_txn, hotel_room0, not_hotel>>

\* cancel_booking: Booking.objects.select_for_update().get(id, user, service_type=HOTEL)
CancelBookingLock(p) ==
    /\ hotel_pc[p] = "cancel_lock"
    /\ LET b == hotel_req[p].booking
       IN  IF bookings[b].service_type = "HOTEL"
           THEN /\ RowLockFree(BookingLockHolders(b), p)
                /\ hotel_txn' = [hotel_txn EXCEPT ![p].booking = b]
                /\ hotel_req' = [hotel_req EXCEPT ![p].rooms = bookings[b].rooms]
                /\ hotel_pc' = [hotel_pc EXCEPT ![p] = "cancel_read"]
           ELSE /\ hotel_pc' = [hotel_pc EXCEPT ![p] = "failed"]
                /\ UNCHANGED <<hotel_txn, hotel_req>>
    /\ UNCHANGED <<hotel_room, bookings, hotel_room0, not_hotel>>

\* cancel_booking: room_type = HotelRoom.objects.get(id=...), read without a lock
CancelBookingReadRoom(p) ==
    /\ hotel_pc[p] = "cancel_read"
    /\ hotel_req' = [hotel_req EXCEPT ![p].available_rooms = hotel_room.available_rooms]
    /\ hotel_pc' = [hotel_pc EXCEPT ![p] = "cancel_finish"]
    /\ UNCHANGED <<hotel_room, bookings, hotel_txn, hotel_room0, not_hotel>>

\* cancel_booking: the fee, status = CANCELLED, booking.save(), release_rooms, commit
CancelBookingFinish(p) ==
    /\ hotel_pc[p] = "cancel_finish"
    /\ LET b == hotel_req[p].booking
       IN  CASE CancelBookingOutcome = "TypeError" ->
                    /\ hotel_pc' = [hotel_pc EXCEPT ![p] = "failed"]
                    /\ UNCHANGED <<hotel_room, bookings>>
             [] CancelBookingOutcome = "AttributeError" ->
                    /\ bookings' = [bookings EXCEPT ![b].status = "CANCELLED"]
                    /\ hotel_pc' = [hotel_pc EXCEPT ![p] = "failed"]
                    /\ UNCHANGED hotel_room
             [] OTHER ->
                    /\ bookings' = [bookings EXCEPT ![b].status = "CANCELLED"]
                    /\ hotel_room' = [hotel_room EXCEPT !.available_rooms =
                                         ReleaseRooms(hotel_req[p].available_rooms,
                                                      hotel_room.total_rooms, hotel_req[p].rooms)]
                    /\ hotel_pc' = [hotel_pc EXCEPT ![p] = "cancelled"]
    /\ hotel_txn' = [hotel_txn EXCEPT ![p] = NoHotelTxn]
    /\ UNCHANGED <<hotel_req, hotel_room0, not_hotel>>

NextHotel ==
    \/ \E p \in Procs, rooms \in RoomCounts, nights \in 0..1 : CreateBookingBegin(p, rooms, nights)
    \/ \E p \in Procs : CreateBookingLockRoom(p)
    \/ \E p \in Procs : CreateBookingCommit(p)
    \/ \E p \in Procs, b \in BookingIds : CancelBookingBegin(p, b)
    \/ \E p \in Procs : CancelBookingLock(p)
    \/ \E p \in Procs : CancelBookingReadRoom(p)
    \/ \E p \in Procs : CancelBookingFinish(p)

InitHotel ==
    /\ BusStart /\ CarStart /\ TrainStart /\ CallStart
    /\ \E total \in 1..MaxRooms, earlier \in 0..MaxRooms, available \in 0..MaxRooms :
          earlier + available <= total /\ HotelStart(total, earlier, available)

SpecHotel == InitHotel /\ [][NextHotel]_vars

\* =====================================================================
\* Cars, and the cancellation view of the bookings app
\* =====================================================================
\* the requests that are inside CarBookingView.form_valid
InCarFormValid == {q \in Procs : car_pc[q] \in {"car_create", "car_save"}}

\* get_object_or_404(Car, id=car_id, is_active=True, status='AVAILABLE') finds no row
RejectedByStatus(car_id) == car_id \notin CarIds \/ cars[car_id] # "AVAILABLE"

\* form_valid: get_object_or_404 on the car, then the rental_days check
CarBookingGet(p, car_id, rental_days) ==
    /\ car_pc[p] = "idle"
    /\ car_req' = [car_req EXCEPT ![p] = [kind |-> "book", car |-> car_id, booking |-> p,
                                          can_cancel |-> FALSE,
                                          overlapped |-> InCarFormValid # {}]]
    /\ car_pc' = [car_pc EXCEPT ![p] =
                     IF RejectedByStatus(car_id) \/ rental_days <= 0 THEN "rejected"
                     ELSE "car_create"]
    /\ UNCHANGED <<cars, bookings, not_car>>

\* form_valid: Booking.objects.create(service_type=CAR, service_id=car_id, status=PENDING)
CarBookingCreate(p) ==
    /\ car_pc[p] = "car_create"
    /\ bookings' = [bookings EXCEPT ![car_req[p].booking] =
                       [service_type |-> "CAR", service_id |-> car_req[p].car, rooms |-> 0,
                        status |-> "PENDING"]]
    /\ car_pc' = [car_pc EXCEPT ![p] = "car_save"]
    /\ UNCHANGED <<cars, car_req, not_car>>

\* form_valid: car.status = 'BOOKED'; car.save(); redirect to payment
CarBookingSave(p) ==
    /\ car_pc[p] = "car_save"
    /\ cars' = [cars EXCEPT ![car_req[p].car] = "BOOKED"]
    /\ car_pc' = [car_pc EXCEPT ![p] = "booked"]
    /\ UNCHANGED <<bookings, car_req, not_car>>

\* cancel_booking_view: get_object_or_404(Booking, status in PENDING, CONFIRMED)
CancelViewGet(p, b) ==
    /\ car_pc[p] = "idle"
    /\ car_req' = [car_req EXCEPT ![p] = [kind |-> "cancel", car |-> 0, booking |-> b,
                                          can_cancel |-> FALSE,
                                          overlapped |-> InCarFormValid # {}]]
    /\ car_pc' = [car_pc EXCEPT ![p] =
                     IF bookings[b].status \in {"PENDING", "CONFIRMED"} THEN "cv_cancel"
                     ELSE "rejected"]
    /\ UNCHANGED <<cars, bookings, not_car>>

\* Booking._release_resources: the body is "pass"
ReleaseResources(b) == UNCHANGED <<cars, hotel_room>>

\* cancel_booking_view: booking.cancel(reason, refund_percentage).  days_before
\* is check_in_date minus the day of the request.  Booking.save() writes the
\* row and booking_post_save then raises; with ATOMIC_REQUESTS the request's
\* transaction rolls the row back, without it the row stays written.
CancelViewCancel(p, days_before, atomic_requests) ==
    /\ car_pc[p] = "cv_cancel"
    /\ LET b == car_req[p].booking
       IN  IF days_before < 1
           THEN \* can_cancel is False: ValueError
                /\ car_pc' = [car_pc EXCEPT ![p] = "error"]
                /\ UNCHANGED <<car_req, bookings, cars, hotel_room>>
           ELSE /\ car_req' = [car_req EXCEPT ![p].can_cancel = TRUE]
                /\ IF BookingPostSaveRaises
                   THEN /\ car_pc' = [car_pc EXCEPT ![p] = "error"]
                        /\ bookings' = IF atomic_requests THEN bookings
                                       ELSE [bookings EXCEPT ![b].status = "CANCELLED"]
                        /\ UNCHANGED <<cars, hotel_room>>
                   ELSE /\ car_pc' = [car_pc EXCEPT ![p] = "cancelled"]
                        /\ bookings' = [bookings EXCEPT ![b].status = "CANCELLED"]
                        /\ ReleaseResources(b)
    /\ UNCHANGED <<hotel_txn, hotel_pc, hotel_req, hotel_room0, bus_vars, room_vars, train_vars, call_vars>>

NextCar ==
    \/ \E p \in Procs, car_id \in RequestCarIds, rental_days \in 0..1 :
          CarBookingGet(p, car_id, rental_days)
    \/ \E p \in Procs : CarBookingCreate(p)
    \/ \E p \in Procs : CarBookingSave(p)
    \/ \E p \in Procs, b \in BookingIds : CancelViewGet(p, b)
    \/ \E p \in Procs, days_before \in 0..1, atomic_requests \in BOOLEAN :
          CancelViewCancel(p, days_before, atomic_requests)

\* a hotel booking of one or more rooms may exist before the requests
InitCar ==
    /\ BusStart /\ CarStart /\ TrainStart /\ CallStart
    /\ \E earlier \in 0..MaxRooms : HotelStart(MaxRooms, earlier, MaxRooms - earlier)

SpecCar == InitCar /\ [][NextCar]_vars

\* =====================================================================
\* Trains
\* =====================================================================
TrainLockHolders == {q \in Procs : train_txn[q]}

\* the requests that are inside TrainSeatManager.book_seats
InTrainBookSeats == {q \in Procs : train_pc[q] \in {"tb_check", "tb_update"}}

\* get_available_seats_for_journey: the seats that are neither booked nor
\* blocked and that no PENDING, CONFIRMED or RAC booking of that date holds
\* on an overlapping part of the route
AvailableSeatsForJourney(from_sequence, to_sequence, travel_date) ==
    {s \in TrainSeatNumbers :
        /\ ~train_seats[s].is_booked /\ ~train_seats[s].is_blocked
        /\ ~\E b \in TrainBookingIds :
              /\ s \in train_bookings[b].seats_booked
              /\ train_bookings[b].travel_date = travel_date
              /\ train_bookings[b].status \in {"CONFIRMED", "RAC", "PENDING"}
              /\ train_bookings[b].from_sequence < to_sequence
              /\ train_bookings[b].to_sequence > from_sequence}

\* Coach.update_available_seats, on the seat rows given
UpdatedAvailableSeats(seats) ==
    NumTrainSeats - Cardinality({s \in TrainSeatNumbers : seats[s].is_booked})

\* check_rac_or_waitlist
CoachCapacity == 72
RacLimit == 20
WaitlistLimit == 50

\* the TrainBooking rows of one status, stations and travel date
SameJourney(r, status) ==
    {b \in TrainBookingIds : /\ train_bookings[b].status = status
                             /\ train_bookings[b].from_sequence = r.from_sequence
                             /\ train_bookings[b].to_sequence = r.to_sequence
                             /\ train_bookings[b].travel_date = r.travel_date}

\* the decision of check_rac_or_waitlist on the three counts of bookings
RacOrWaitlist(confirmed_bookings, rac_bookings, waitlist_bookings, num_passengers) ==
    LET available_confirmed == CoachCapacity - confirmed_bookings
    IN  IF available_confirmed >= num_passengers
        THEN [status |-> "CONFIRMED", position |-> 0]
        ELSE IF available_confirmed + (RacLimit - rac_bookings) >= num_passengers
        THEN [status |-> "RAC", position |-> rac_bookings + 1]
        ELSE IF available_confirmed + RacLimit + (WaitlistLimit - waitlist_bookings)
                    >= num_passengers
        THEN [status |-> "WAITLIST", position |-> waitlist_bookings + 1]
        ELSE [status |-> "NOT_AVAILABLE", position |-> 0]

CheckRacOrWaitlist(r) ==
    RacOrWaitlist(Cardinality(SameJourney(r, "CONFIRMED")),
                  Cardinality(SameJourney(r, "RAC")),
                  Cardinality(SameJourney(r, "WAITLIST")),
                  r.num_passengers)

\* the id of the next TrainBooking row
UsedTrainBookingIds == {b \in TrainBookingIds : train_bookings[b].status # "NONE"}
NextTrainBookingId ==
    CHOOSE b \in TrainBookingIds \ UsedTrainBookingIds :
        \A c \in TrainBookingIds \ UsedTrainBookingIds : b <= c
TrainBookRequests == {q \in Procs : train_req[q].kind = "book"}

\* TrainBookingView.form_valid up to the call of book_seats
TrainBookBegin(p, seat_numbers, num_passengers, from_sequence, to_sequence, travel_date) ==
    /\ train_pc[p] = "idle"
    /\ Cardinality(UsedTrainBookingIds) + Cardinality(TrainBookRequests) < MaxTrainBookings
    /\ IF from_sequence >= to_sequence
       THEN \* "Destination must be after departure station."
            /\ train_pc' = [train_pc EXCEPT ![p] = "invalid"]
            /\ UNCHANGED train_req
       ELSE /\ train_req' = [train_req EXCEPT ![p] =
                                [kind |-> "book", seats |-> seat_numbers,
                                 num_passengers |-> num_passengers,
                                 from_sequence |-> from_sequence,
                                 to_sequence |-> to_sequence,
                                 travel_date |-> travel_date, booking |-> 0,
                                 overlapped |-> InTrainBookSeats # {}]]
            /\ train_pc' = [train_pc EXCEPT ![p] = "tb_check"]
    /\ UNCHANGED <<train_seats, coach_available_seats, train_bookings, train_txn,
                   train_grants, not_train>>

\* book_seats: Train.objects.select_for_update().get, the date check, the
\* coach, get_available_seats_for_journey and the unavailable_seats check
TrainBookCheck(p) ==
    /\ train_pc[p] = "tb_check"
    /\ RowLockFree(TrainLockHolders, p)
    /\ LET r == train_req[p]
       IN  IF \/ r.travel_date < Today
              \/ r.seats \ AvailableSeatsForJourney(r.from_sequence, r.to_sequence,
                                                    r.travel_date) # {}
           THEN \* return False: the transaction commits with nothing written
                /\ train_pc' = [train_pc EXCEPT ![p] = "tb_fallback"]
                /\ UNCHANGED train_txn
           ELSE /\ train_txn' = [train_txn EXCEPT ![p] = TRUE]
                /\ train_pc' = [train_pc EXCEPT ![p] = "tb_update"]
    /\ UNCHANGED <<train_seats, coach_available_seats, train_bookings, train_req,
                   train_grants, not_train>>

\* book_seats: seats.update(is_booked=True) on the rows still free,
\* coach.update_available_seats(), return True, commit
TrainBookUpdate(p) ==
    /\ train_pc[p] = "tb_update"
    /\ LET rows == {s \in train_req[p].seats :
                       ~train_seats[s].is_booked /\ ~train_seats[s].is_blocked}
           seats == [s \in TrainSeatNumbers |->
                        IF s \in rows THEN [train_seats[s] EXCEPT !.is_booked = TRUE]
                        ELSE train_seats[s]]
       IN  /\ train_seats' = seats
           /\ coach_available_seats' = UpdatedAvailableSeats(seats)
    /\ train_grants' = [s \in TrainSeatNumbers |->
                           IF s \in train_req[p].seats THEN train_grants[s] + 1
                           ELSE train_grants[s]]
    /\ train_txn' = [train_txn EXCEPT ![p] = FALSE]
    /\ train_pc' = [train_pc EXCEPT ![p] = "tb_create"]
    /\ UNCHANGED <<train_bookings, train_req, not_train>>

\* form_valid after a successful book_seats: TrainBooking.objects.create, status CONFIRMED
TrainFormValidCreate(p) ==
    /\ train_pc[p] = "tb_create"
    /\ train_bookings' = [train_bookings EXCEPT ![NextTrainBookingId] =
                             [seats_booked |-> train_req[p].seats,
                              total_passengers |-> train_req[p].num_passengers,
                              from_sequence |-> train_req[p].from_sequence,
                              to_sequence |-> train_req[p].to_sequence,
                              travel_date |-> train_req[p].travel_date,
                              status |-> "CONFIRMED", position |-> 0]]
    /\ train_pc' = [train_pc EXCEPT ![p] = "booked"]
    /\ train_req' = [train_req EXCEPT ![p] = NoTrainReq]
    /\ UNCHANGED <<train_seats, coach_available_seats, train_txn, train_grants, not_train>>

\* form_valid after a failed book_seats: check_rac_or_waitlist, then a
\* TrainBooking with status RAC or WAITLIST, or form_invalid
TrainFormValidFallback(p) ==
    /\ train_pc[p] = "tb_fallback"
    /\ LET alt == CheckRacOrWaitlist(train_req[p])
       IN  IF alt.status \in {"RAC", "WAITLIST"}
           THEN /\ train_bookings' = [train_bookings EXCEPT ![NextTrainBookingId] =
                                         [seats_booked |-> train_req[p].seats,
                                          total_passengers |-> train_req[p].num_passengers,
                                          from_sequence |-> train_req[p].from_sequence,
                                          to_sequence |-> train_req[p].to_sequence,
                                          travel_date |-> train_req[p].travel_date,
                                          status |-> alt.status,
                                          position |-> alt.position]]
                /\ train_pc' = [train_pc EXCEPT ![p] = "booked"]
           ELSE /\ train_pc' = [train_pc EXCEPT ![p] = "invalid"]
                /\ UNCHANGED train_bookings
    /\ train_req' = [train_req EXCEPT ![p] = NoTrainReq]
    /\ UNCHANGED <<train_seats, coach_available_seats, train_txn, train_grants, not_train>>

\* cancel_train_booking: get_object_or_404(TrainBooking, status in PENDING, CONFIRMED, RAC)
TrainCancelGet(p, b) ==
    /\ train_pc[p] = "idle"
    /\ IF train_bookings[b].status \in {"PENDING", "CONFIRMED", "RAC"}
       THEN /\ train_req' = [train_req EXCEPT ![p] =
                                [kind |-> "cancel", seats |-> train_bookings[b].seats_booked,
                                 num_passengers |-> train_bookings[b].total_passengers,
                                 from_sequence |-> train_bookings[b].from_sequence,
                                 to_sequence |-> train_bookings[b].to_sequence,
                                 travel_date |-> train_bookings[b].travel_date,
                                 booking |-> b, overlapped |-> InTrainBookSeats # {}]]
            /\ train_pc' = [train_pc EXCEPT ![p] = "tc_cancel"]
       ELSE /\ train_pc' = [train_pc EXCEPT ![p] = "rejected"]
            /\ UNCHANGED train_req
    /\ UNCHANGED <<train_seats, coach_available_seats, train_bookings, train_txn,
                   train_grants, not_train>>

\* cancel_train_booking: the cancellation charge, status = 'CANCELLED',
\* booking.save().  datetime.combine(...) is naive: with USE_TZ the
\* subtraction of timezone.now() raises TypeError, without it the booking
\* is saved.  No statement of the view touches a Seat or the Coach.
TrainCancelSave(p, use_tz) ==
    /\ train_pc[p] = "tc_cancel"
    /\ IF use_tz
       THEN /\ train_pc' = [train_pc EXCEPT ![p] = "error"]
            /\ UNCHANGED train_bookings
       ELSE /\ train_bookings' = [train_bookings EXCEPT ![train_req[p].booking].status =
                                     "CANCELLED"]
            /\ train_pc' = [train_pc EXCEPT ![p] = "cancelled"]
    /\ train_req' = [train_req EXCEPT ![p] = NoTrainReq]
    /\ UNCHANGED <<train_seats, coach_available_seats, train_txn, train_grants, not_train>>

NextTrain ==
    \/ \E p \in Procs, seat_numbers \in SUBSET TrainSeatNumbers \ {{}},
          from_sequence \in StopSequences, to_sequence \in StopSequences,
          travel_date \in {Today - 1, Today} :
          TrainBookBegin(p, seat_numbers, Cardinality(seat_numbers), from_sequence,
                         to_sequence, travel_date)
    \/ \E p \in Procs : TrainBookCheck(p)
    \/ \E p \in Procs : TrainBookUpdate(p)
    \/ \E p \in Procs : TrainFormValidCreate(p)
    \/ \E p \in Procs : TrainFormValidFallback(p)
    \/ \E p \in Procs, b \in TrainBookingIds : TrainCancelGet(p, b)
    \/ \E p \in Procs, use_tz \in BOOLEAN : TrainCancelSave(p, use_tz)

\* the view answers and the client can send its next request
TrainRequestDone(p) ==
    /\ train_pc[p] \in {"booked", "invalid", "rejected", "error", "cancelled"}
    /\ train_pc' = [train_pc EXCEPT ![p] = "idle"]
    /\ UNCHANGED <<train_seats, coach_available_seats, train_bookings, train_txn,
                   train_req, train_grants, not_train>>

InitTrain == BusStart /\ CarStart /\ TrainStart /\ CallStart /\ HotelStart(1, 0, 1)

SpecTrain == InitTrain /\ [][NextTrain]_vars

\* ---------------------------------------------------------------------
\* The train requests served one after the other, over the segments between
\* neighbouring stops.  num_passengers is len(seats.split(',')), which can
\* exceed the number of seat numbers the list names.
\* ---------------------------------------------------------------------
QueueProc == 1

NextQueue ==
    \/ \E seat_numbers \in SUBSET TrainSeatNumbers \ {{}},
          from_sequence \in QueueStopSequences, len \in 0..1 :
          \E num_passengers \in {Cardinality(seat_numbers), CoachCapacity + 1} :
              /\ from_sequence + len \in QueueStopSequences
              /\ TrainBookBegin(QueueProc, seat_numbers, num_passengers,
                                from_sequence, from_sequence + len, Today)
    \/ TrainBookCheck(QueueProc)
    \/ TrainBookUpdate(QueueProc)
    \/ TrainFormValidCreate(QueueProc)
    \/ TrainFormValidFallback(QueueProc)
    \/ \E b \in TrainBookingIds : TrainCancelGet(QueueProc, b)
    \/ \E use_tz \in BOOLEAN : TrainCancelSave(QueueProc, use_tz)
    \/ TrainRequestDone(QueueProc)

InitQueue == BusStart /\ CarStart /\ TrainStart /\ CallStart /\ HotelStart(1, 0, 1)

SpecQueue == InitQueue /\ [][NextQueue]_vars

\* ---------------------------------------------------------------------
\* The requests for one journey served one after the other.  The field
\* "seats" is free text: it can name a seat the coach does not have, and
\* num_passengers = len(seats.split(',')) can exceed the number of seat
\* numbers it names.
\* ---------------------------------------------------------------------
RequestTrainSeatNumbers == 1..(NumTrainSeats + 1)

PassengerCounts(seat_numbers) ==
    {Cardinality(seat_numbers), CoachCapacity + 1, CoachCapacity + RacLimit + 1}

NextRac ==
    \/ \E seat_numbers \in SUBSET RequestTrainSeatNumbers \ {{}} :
          \E num_passengers \in PassengerCounts(seat_numbers) :
              TrainBookBegin(QueueProc, seat_numbers, num_passengers, 1, 2, Today)
    \/ TrainBookCheck(QueueProc)
    \/ TrainBookUpdate(QueueProc)
    \/ TrainFormValidCreate(QueueProc)
    \/ TrainFormValidFallback(QueueProc)
    \/ \E b \in TrainBookingIds : TrainCancelGet(QueueProc, b)
    \/ \E use_tz \in BOOLEAN : TrainCancelSave(QueueProc, use_tz)
    \/ TrainRequestDone(QueueProc)

InitRac == BusStart /\ CarStart /\ TrainStart /\ CallStart /\ HotelStart(1, 0, 1)

SpecRac == InitRac /\ [][NextRac]_vars

\* every request is answered and another one follows
SpecRacFair == SpecRac /\ WF_vars(NextRac)

\* =====================================================================
\* BookingManager.confirm_booking and Booking.confirm
\* =====================================================================
ConfirmLockHolders(b) == {q \in Procs : confirm[q].lock /\ confirm[q].booking = b}

\* Booking.save() of an existing row: the UPDATE, then booking_post_save
SaveExistingBooking == IF BookingPostSaveRaises THEN "AttributeError" ELSE "saved"

\* the admin action calls BookingManager.confirm_booking(booking_id)
ConfirmBookingBegin(p, b) ==
    /\ confirm[p].pc = "idle"
    /\ confirm' = [confirm EXCEPT ![p] = [pc |-> "cf_get", kind |-> "confirm_booking",
                                          booking |-> b, lock |-> FALSE, result |-> "none"]]
    /\ UNCHANGED <<bookings, history, not_confirm>>

\* confirm_booking: Booking.objects.select_for_update().get(id=booking_id)
ConfirmBookingGet(p) ==
    /\ confirm[p].pc = "cf_get"
    /\ IF bookings[confirm[p].booking].status = "NONE"
       THEN \* Booking.DoesNotExist: "Booking not found"
            confirm' = [confirm EXCEPT ![p].pc = "done", ![p].result = "not_found"]
       ELSE /\ RowLockFree(ConfirmLockHolders(confirm[p].booking), p)
            /\ confirm' = [confirm EXCEPT ![p].pc = "cf_save", ![p].lock = TRUE]
    /\ UNCHANGED <<bookings, history, not_confirm>>

\* confirm_booking: the status check, status = CONFIRMED, booking.save(),
\* BookingHistory.objects.create, return; the except clause turns an
\* exception into a return value, so the transaction commits
ConfirmBookingSave(p) ==
    /\ confirm[p].pc = "cf_save"
    /\ LET b == confirm[p].booking
       IN  IF bookings[b].status # "PENDING"
           THEN /\ confirm' = [confirm EXCEPT ![p].pc = "done", ![p].lock = FALSE,
                                              ![p].result = "not_pending"]
                /\ UNCHANGED <<bookings, history>>
           ELSE /\ bookings' = [bookings EXCEPT ![b].status = "CONFIRMED"]
                /\ IF SaveExistingBooking = "saved"
                   THEN /\ history' = [history EXCEPT ![b] = @ + 1]
                        /\ confirm' = [confirm EXCEPT ![p].pc = "done", ![p].lock = FALSE,
                                                      ![p].result = "success"]
                   ELSE /\ confirm' = [confirm EXCEPT ![p].pc = "done", ![p].lock = FALSE,
                                                      ![p].result = "failed"]
                        /\ UNCHANGED history
    /\ UNCHANGED not_confirm

\* Booking.confirm on an instance just read: ValueError unless PENDING,
\* else status = CONFIRMED and self.save()
BookingConfirm(p, b) ==
    /\ confirm[p].pc = "idle"
    /\ bookings[b].status # "NONE"
    /\ IF bookings[b].status # "PENDING"
       THEN /\ confirm' = [confirm EXCEPT ![p] = [pc |-> "done", kind |-> "confirm",
                                                  booking |-> b, lock |-> FALSE,
                                                  result |-> "ValueError"]]
            /\ UNCHANGED bookings
       ELSE /\ bookings' = [bookings EXCEPT ![b].status = "CONFIRMED"]
            /\ confirm' = [confirm EXCEPT ![p] =
                               [pc |-> "done", kind |-> "confirm", booking |-> b,
                                lock |-> FALSE,
                                result |-> IF SaveExistingBooking = "saved" THEN "success"
                                           ELSE "AttributeError"]]
    /\ UNCHANGED <<history, not_confirm>>

NextConfirm ==
    \/ \E p \in Procs, b \in BookingIds : ConfirmBookingBegin(p, b)
    \/ \E p \in Procs : ConfirmBookingGet(p)
    \/ \E p \in Procs : ConfirmBookingSave(p)
    \/ \E p \in Procs, b \in BookingIds : BookingConfirm(p, b)

\* Booking 0 and booking 1 exist, each PENDING or CANCELLED
InitConfirm ==
    /\ BusStart /\ CarStart /\ TrainStart /\ CallStart
    /\ hotel_room = [total_rooms |-> 2, available_rooms |-> 0]
    /\ \E status \in [0..1 -> {"PENDING", "CANCELLED"}] :
          bookings = [b \in BookingIds |->
                         IF b <= 1
                         THEN [service_type |-> "HOTEL", service_id |-> 0, rooms |-> 1,
                               status |-> status[b]]
                         ELSE NoBooking]
    /\ hotel_txn = [p \in Procs |-> NoHotelTxn]
    /\ hotel_pc = [p \in Procs |-> "idle"]
    /\ hotel_req = [p \in Procs |-> NoHotelReq]
    /\ hotel_room0 = 0
    /\ room_log = <<>>

SpecConfirm == InitConfirm /\ [][NextConfirm]_vars

\* =====================================================================
\* Booking.cancel
\* =====================================================================
BookingStatuses == {"PENDING", "CONFIRMED", "CANCELLED", "COMPLETED", "RAC", "WAITLISTED"}
RefundPercentages == {0, 50, 100}
\* Booking.total_amount of the bookings of these runs
TotalAmount == 2

CanCancel_AnyStatus(status, days_before) == days_before >= 1

\* Booking.can_cancel, on the status of the instance; days_before is
\* (relevant_date - timezone.now().date()).days
CanCancel(status, days_before) ==
    IF status \notin {"PENDING", "CONFIRMED", "RAC", "WAITLISTED"} THEN FALSE
    ELSE days_before >= 1

\* a caller reads Booking b from the database
BookingLoad(p, b) ==
    /\ cancel[p].pc = "idle"
    /\ bookings[b].status # "NONE"
    /\ cancel' = [cancel EXCEPT ![p] = [pc |-> "loaded", booking |-> b,
                                        status |-> bookings[b].status,
                                        days_before |-> 0, result |-> "none"]]
    /\ UNCHANGED <<bookings, cancellation, not_cancel>>

\* booking.cancel(reason, refund_percentage) on the instance read before.
\* self.save() writes the row and booking_post_save then raises; a caller
\* that runs inside a transaction loses the row again (rolled_back).
BookingCancel(p, days_before, refund_percentage, rolled_back) ==
    /\ cancel[p].pc = "loaded"
    /\ LET b == cancel[p].booking
           row == [cancellation_date |-> "SET",
                   refund_amount |-> IF refund_percentage > 0
                                     THEN (TotalAmount * refund_percentage) \div 100
                                     ELSE cancellation[b].refund_amount]
       IN  IF ~CanCancel(cancel[p].status, days_before)
           THEN /\ cancel' = [cancel EXCEPT ![p].pc = "done", ![p].days_before = days_before,
                                            ![p].result = "ValueError"]
                /\ UNCHANGED <<bookings, cancellation>>
           ELSE /\ cancel' = [cancel EXCEPT ![p].pc = "done", ![p].days_before = days_before,
                                            ![p].result =
                                                IF SaveExistingBooking = "saved" THEN "returned"
                                                ELSE "AttributeError"]
                /\ IF SaveExistingBooking # "saved" /\ rolled_back
                   THEN UNCHANGED <<bookings, cancellation>>
                   ELSE /\ bookings' = [bookings EXCEPT ![b].status = "CANCELLED"]
                        /\ cancellation' = [cancellation EXCEPT ![b] = row]
    /\ UNCHANGED not_cancel

NextCancel ==
    \/ \E p \in Procs, b \in BookingIds : BookingLoad(p, b)
    \/ \E p \in Procs, days_before \in 0..1, refund_percentage \in RefundPercentages,
          rolled_back \in BOOLEAN :
          BookingCancel(p, days_before, refund_percentage, rolled_back)

\* Booking 0 exists, in any of the statuses
InitCancel ==
    /\ BusStart /\ CarStart /\ TrainStart /\ CallStart
    /\ hotel_room = [total_rooms |-> 1, available_rooms |-> 0]
    /\ \E status \in BookingStatuses :
          bookings = [b \in BookingIds |->
                         IF b = 0
                         THEN [service_type |-> "HOTEL", service_id |-> 0, rooms |-> 1,
                               status |-> status]
                         ELSE NoBooking]
    /\ hotel_txn = [p \in Procs |-> NoHotelTxn]
    /\ hotel_pc = [p \in Procs |-> "idle"]
    /\ hotel_req = [p \in Procs |-> NoHotelReq]
    /\ hotel_room0 = 0
    /\ room_log = <<>>

SpecCancel == InitCancel /\ [][NextCancel]_vars

\* =====================================================================
\* Payment.initiate_refund
\* =====================================================================
PaymentStatuses == {"PENDING", "PROCESSING", "COMPLETED", "FAILED", "REFUNDED",
                    "PARTIALLY_REFUNDED", "CANCELLED"}
\* the amount argument; 0 stands for None and for Decimal(0), which
\* "amount or self.amount" both replace by the payment amount
RefundAmounts == 0..(PaymentAmount + 1)

RECURSIVE SumAmounts(_)
SumAmounts(rows) == IF rows = <<>> THEN 0 ELSE Head(rows) + SumAmounts(Tail(rows))

\* Payment.is_refundable, on the fields of the instance
IsRefundable(status, amount) == status = "COMPLETED" /\ amount > 0

\* a request reads the Payment from the database
PaymentLoad(p) ==
    /\ refund_request[p].pc \in {"idle", "done"}
    /\ refund_request' = [refund_request EXCEPT ![p] =
                              [NoRefundRequest EXCEPT !.pc = "loaded", !.status = payment.status]]
    /\ UNCHANGED <<payment, refunds, not_payment>>

\* payment.initiate_refund(amount, reason) up to Refund.objects.create:
\* the two tests on the instance, then the INSERT of the Refund row
InitiateRefundCreate(p, amount) ==
    /\ refund_request[p].pc = "loaded"
    /\ LET refund_amount == IF amount # 0 THEN amount ELSE payment.amount
       IN  IF ~IsRefundable(refund_request[p].status, payment.amount)
              \/ refund_amount > payment.amount
           THEN /\ refund_request' = [refund_request EXCEPT ![p].pc = "done",
                                                            ![p].amount = amount,
                                                            ![p].result = "ValueError"]
                /\ UNCHANGED refunds
           ELSE /\ refund_request' = [refund_request EXCEPT ![p].pc = "created",
                                                            ![p].amount = amount,
                                                            ![p].refund_amount = refund_amount]
                /\ refunds' = Append(refunds, refund_amount)
    /\ UNCHANGED <<payment, not_payment>>

\* the rest of initiate_refund: the status is set from the amount of this
\* refund and self.save() writes the instance over the row
InitiateRefundSave(p) ==
    /\ refund_request[p].pc = "created"
    /\ LET status == IF refund_request[p].refund_amount = payment.amount
                     THEN "REFUNDED" ELSE "PARTIALLY_REFUNDED"
       IN  /\ payment' = [payment EXCEPT !.status = status]
           /\ refund_request' = [refund_request EXCEPT ![p].pc = "done",
                                                      ![p].status = status,
                                                      ![p].result = "returned"]
    /\ UNCHANGED <<refunds, not_payment>>

NextPayment ==
    \/ \E p \in Procs : PaymentLoad(p)
    \/ \E p \in Procs, amount \in RefundAmounts : InitiateRefundCreate(p, amount)
    \/ \E p \in Procs : InitiateRefundSave(p)

\* one payment with no Refund rows, in any of the statuses
InitPayment ==
    /\ BusStart /\ CarStart /\ TrainStart
    /\ RefundStart /\ LimitStart /\ ConfirmStart /\ CancelStart /\ WalletStart /\ BlockStart
    /\ HotelStart(1, 0, 1)
    /\ \E status \in PaymentStatuses : payment = [status |-> status, amount |-> PaymentAmount]
    /\ refunds = <<>>
    /\ refund_request = [p \in Procs |-> NoRefundRequest]

SpecPayment == InitPayment /\ [][NextPayment]_vars

\* =====================================================================
\* Wallet.credit and Wallet.debit
\* =====================================================================
WalletAmounts == (-1)..MaxAmount
\* the requests that use the wallet: two, so that one can hold an instance
\* that the other has made stale
WalletProcs == {QueueProc, QueueProc + 1}

BalanceBefore_SameSign(balance, amount, transaction_type) == balance - amount

\* WalletTransaction.save: balance_before, which credit and debit leave
\* unset, from the balance of the wallet instance after the operation
BalanceBefore(balance, amount, transaction_type) ==
    balance - (IF transaction_type = "CREDIT" THEN amount ELSE -amount)

\* WalletTransaction.objects.create(wallet=self, ..., balance_after=self.balance)
WalletTransactionCreate(balance, amount, transaction_type) ==
    [transaction_type |-> transaction_type, amount |-> amount,
     balance_before |-> BalanceBefore(balance, amount, transaction_type),
     balance_after |-> balance]

\* a request reads the Wallet from the database
WalletLoad(p) ==
    /\ wallet_call[p].pc \in {"idle", "done"}
    /\ wallet_call' = [wallet_call EXCEPT ![p] =
                          [NoWalletCall EXCEPT !.pc = "loaded", !.balance = wallet.balance]]
    /\ UNCHANGED <<wallet, wallet_transactions, not_wallet>>

\* wallet.credit(amount) on the instance read before
WalletCredit(p, amount) ==
    /\ wallet_call[p].pc \in {"loaded", "done"}
    /\ Len(wallet_transactions) < MaxWalletTransactions
    /\ wallet_call[p].balance + amount <= MaxBalance
    /\ IF amount <= 0
       THEN /\ wallet_call' = [wallet_call EXCEPT ![p].pc = "done", ![p].method = "credit",
                                                  ![p].amount = amount,
                                                  ![p].result = "ValueError"]
            /\ UNCHANGED <<wallet, wallet_transactions>>
       ELSE LET balance == wallet_call[p].balance + amount
            IN  /\ wallet_call' = [wallet_call EXCEPT ![p].pc = "done", ![p].method = "credit",
                                                      ![p].amount = amount,
                                                      ![p].balance = balance,
                                                      ![p].result = "returned"]
                /\ wallet' = [wallet EXCEPT !.balance = balance]
                /\ wallet_transactions' =
                       Append(wallet_transactions,
                              WalletTransactionCreate(balance, amount, "CREDIT"))
    /\ UNCHANGED not_wallet

\* wallet.debit(amount) on the instance read before
WalletDebit(p, amount) ==
    /\ wallet_call[p].pc \in {"loaded", "done"}
    /\ Len(wallet_transactions) < MaxWalletTransactions
    /\ IF amount <= 0 \/ amount > wallet_call[p].balance
       THEN /\ wallet_call' = [wallet_call EXCEPT ![p].pc = "done", ![p].method = "debit",
                                                  ![p].amount = amount,
                                                  ![p].result = "ValueError"]
            /\ UNCHANGED <<wallet, wallet_transactions>>
       ELSE LET balance == wallet_call[p].balance - amount
            IN  /\ wallet_call' = [wallet_call EXCEPT ![p].pc = "done", ![p].method = "debit",
                                                      ![p].amount = amount,
                                                      ![p].balance = balance,
                                                      ![p].result = "returned"]
                /\ wallet' = [wallet EXCEPT !.balance = balance]
                /\ wallet_transactions' =
                       Append(wallet_transactions,
                              WalletTransactionCreate(balance, amount, "DEBIT"))
    /\ UNCHANGED not_wallet

NextWallet ==
    \/ \E p \in WalletProcs : WalletLoad(p)
    \/ \E p \in WalletProcs, amount \in WalletAmounts : WalletCredit(p, amount)
    \/ \E p \in WalletProcs, amount \in WalletAmounts : WalletDebit(p, amount)

\* one wallet with no transactions and any balance that is not negative
InitWallet ==
    /\ BusStart /\ CarStart /\ TrainStart
    /\ RefundStart /\ LimitStart /\ ConfirmStart /\ CancelStart /\ PaymentStart /\ BlockStart
    /\ HotelStart(1, 0, 1)
    /\ \E balance \in 0..MaxBalance : wallet = [balance |-> balance]
    /\ wallet_transactions = <<>>
    /\ wallet_call = [p \in Procs |-> NoWalletCall]

SpecWallet == InitWallet /\ [][NextWallet]_vars

\* =====================================================================
\* check_rac_or_waitlist on the counts of one journey
\* =====================================================================
\* a request that book_seats granted: one more CONFIRMED booking
JourneyConfirm ==
    /\ journey.confirmed_bookings < MaxConfirmed
    /\ journey' = [journey EXCEPT !.confirmed_bookings = @ + 1, !.answer = "CONFIRMED"]
    /\ UNCHANGED not_limit

\* a request that book_seats refused: form_valid asks check_rac_or_waitlist
\* and creates the booking with status RAC or WAITLIST, or answers form_invalid
JourneyFallback(num_passengers) ==
    /\ journey.rac_bookings + journey.waitlist_bookings < MaxQueued
    /\ LET alt == RacOrWaitlist(journey.confirmed_bookings, journey.rac_bookings,
                                journey.waitlist_bookings, num_passengers)
       IN  journey' = [confirmed_bookings |-> journey.confirmed_bookings,
                       rac_bookings |-> journey.rac_bookings +
                                            (IF alt.status = "RAC" THEN 1 ELSE 0),
                       waitlist_bookings |-> journey.waitlist_bookings +
                                                 (IF alt.status = "WAITLIST" THEN 1 ELSE 0),
                       answer |-> alt.status]
    /\ UNCHANGED not_limit

NextLimit ==
    \/ JourneyConfirm
    \/ \E num_passengers \in 1..MaxPassengers : JourneyFallback(num_passengers)

InitLimit == BusStart /\ CarStart /\ TrainStart /\ CallStart /\ HotelStart(1, 0, 1)

SpecLimit == InitLimit /\ [][NextLimit]_vars

\* =====================================================================
\* BookingManager.calculate_refund_amount
\* =====================================================================
ServiceTypes == {"HOTEL", "CAR", "BUS", "TRAIN"}

\* the policies table: hours before the service
FreeCancellationHours(service_type) ==
    CASE service_type = "HOTEL" -> 48
      [] service_type = "CAR" -> 168
      [] service_type = "BUS" -> 4
      [] service_type = "TRAIN" -> 48
      [] OTHER -> 0

PartialRefundHours(service_type) ==
    CASE service_type = "HOTEL" -> 24
      [] service_type = "CAR" -> 72
      [] service_type = "BUS" -> 0
      [] service_type = "TRAIN" -> 24
      [] OTHER -> 0

\* the if / elif / else on hours_before; amounts are kept doubled so that
\* total_amount * Decimal('0.5') stays a whole number
RefundByPolicy(service_type, total_amount, hours_before) ==
    IF hours_before >= FreeCancellationHours(service_type) THEN 2 * total_amount
    ELSE IF hours_before >= PartialRefundHours(service_type) THEN total_amount
    ELSE 0

\* utils.py imports the class with "from datetime import datetime", so
\* datetime.date at line 158 is the method datetime.date, not the type:
\* isinstance(relevant_date, datetime.date) raises TypeError for every argument.
IsinstanceRaises == TRUE

\* calculate_refund_amount(booking, cancellation_date), hours_before being
\* the hours from cancellation_date to midnight of the service date
CalculateRefundAmount(service_type, total_amount, hours_before) ==
    /\ refund' = [called |-> TRUE, service_type |-> service_type,
                  total_amount |-> total_amount, hours_before |-> hours_before,
                  raised |-> IsinstanceRaises,
                  refund_x2 |-> IF IsinstanceRaises THEN 0
                                ELSE RefundByPolicy(service_type, total_amount, hours_before)]
    /\ UNCHANGED not_refund

NextRefund ==
    \E service_type \in ServiceTypes, total_amount \in 0..MaxAmount,
       hours_before \in (-1)..MaxRefundHours :
        CalculateRefundAmount(service_type, total_amount, hours_before)

InitRefund == BusStart /\ CarStart /\ TrainStart /\ CallStart /\ HotelStart(1, 0, 1)

SpecRefund == InitRefund /\ [][NextRefund]_vars

\* ------------------------------------------------ the HotelRoom methods
\* room_type.reserve_rooms(count), with the save() it ends in
ReserveRoomsCall(count) ==
    /\ Len(room_log) < MaxRoomCalls
    /\ hotel_room' = [hotel_room EXCEPT !.available_rooms = ReserveRooms(@, count)]
    /\ room_log' = Append(room_log, [op |-> "reserve_rooms", count |-> count,
                                     before |-> hotel_room.available_rooms,
                                     returned |-> ReserveRoomsReturn(hotel_room.available_rooms, count)])
    /\ UNCHANGED not_room

\* room_type.release_rooms(count), with the save() it ends in
ReleaseRoomsCall(count) ==
    /\ Len(room_log) < MaxRoomCalls
    /\ hotel_room' = [hotel_room EXCEPT !.available_rooms =
                         ReleaseRooms(@, hotel_room.total_rooms, count)]
    /\ room_log' = Append(room_log, [op |-> "release_rooms", count |-> count,
                                     before |-> hotel_room.available_rooms,
                                     returned |-> TRUE])
    /\ UNCHANGED not_room

NextRoom ==
    \/ \E count \in 1..(MaxRooms + 1) : ReserveRoomsCall(count)
    \/ \E count \in 1..(MaxRooms + 1) : ReleaseRoomsCall(count)

InitRoom ==
    /\ BusStart /\ CarStart /\ TrainStart /\ CallStart
    /\ \E total \in 1..MaxRooms, available \in 0..MaxRooms :
          available <= total /\ HotelStart(total, 0, available)

SpecRoom == InitRoom /\ [][NextRoom]_vars

\* ---------------------------------------------------------------- bus spec
NextBus ==
    \/ \E p \in Procs, seat_numbers \in SUBSET BusSeatNumbers \ {{}} :
          BookSeatsBegin(p, seat_numbers, Today)
    \/ \E p \in Procs : BookSeatsLockBus(p)
    \/ \E p \in Procs : BookSeatsSelect(p)
    \/ \E p \in Procs : BookSeatsUpdate(p)
    \/ \E p \in Procs : FormValidCreateBusBooking(p)
    \/ \E p \in Procs : FormInvalidBus(p)
    \/ \E p \in Procs, b \in 1..MaxBusRequests : CancelBusBookingGet(p, b)
    \/ \E p \in Procs : CancelBookingSave(p)
    \/ \E p \in Procs : ReleaseSeats(p)
    \/ \E b \in 1..MaxBusRequests : ConfirmBookings(b)

InitBus == BusStart /\ CarStart /\ TrainStart /\ CallStart /\ HotelStart(1, 0, 1)

SpecBus == InitBus /\ [][NextBus]_vars

\* ---------------------------------------------------------------------
\* SeatManager.book_seats with every seat list a client can send, for today
\* or a past date, on a bus some of whose seats may be blocked.
\* ---------------------------------------------------------------------
BusStartBlocked(blocked) ==
    /\ bus_seats = [s \in BusSeatNumbers |->
                       [is_booked |-> FALSE, is_blocked |-> s \in blocked]]
    /\ bus_bookings = <<>>
    /\ bus_txn = [p \in Procs |-> NoBusTxn]
    /\ bus_pc = [p \in Procs |-> "idle"]
    /\ bus_req = [p \in Procs |-> NoBusReq]
    /\ bus_grants = [s \in RequestSeatNumbers |-> 0]
    /\ bus_started = 0

NextBusSeats ==
    \/ \E p \in Procs, seat_numbers \in SeatLists, travel_date \in {Today - 1, Today} :
          BookSeatsBegin(p, seat_numbers, travel_date)
    \/ \E p \in Procs : BookSeatsLockBus(p)
    \/ \E p \in Procs : BookSeatsSelect(p)
    \/ \E p \in Procs : BookSeatsUpdate(p)
    \/ \E p \in Procs : FormValidCreateBusBooking(p)
    \/ \E p \in Procs : FormInvalidBus(p)

InitBusSeats ==
    /\ CarStart /\ TrainStart /\ CallStart /\ HotelStart(1, 0, 1)
    /\ \E blocked \in SUBSET BusSeatNumbers : BusStartBlocked(blocked)

SpecBusSeats == InitBusSeats /\ [][NextBusSeats]_vars

\* ---------------------------------------------------------------------
\* The bus requests for today and tomorrow, served one after the other.
\* ---------------------------------------------------------------------
BusTravelDates == {Today, Today + 1}

\* get_available_seats_for_date
AvailableSeatsForDate(travel_date) ==
    LET booked_seats == UNION {bus_bookings[b].seats_booked :
                                  b \in {c \in 1..Len(bus_bookings) :
                                            /\ bus_bookings[c].travel_date = travel_date
                                            /\ bus_bookings[c].status \in {"CONFIRMED", "PENDING"}}}
    IN  {s \in BusSeatNumbers : BusSeatIsAvailable(s)} \ booked_seats

NextBusDates ==
    \/ \E seat_numbers \in SUBSET BusSeatNumbers \ {{}}, travel_date \in BusTravelDates :
          BookSeatsBegin(QueueProc, seat_numbers, travel_date)
    \/ BookSeatsLockBus(QueueProc)
    \/ BookSeatsSelect(QueueProc)
    \/ BookSeatsUpdate(QueueProc)
    \/ FormValidCreateBusBooking(QueueProc)
    \/ FormInvalidBus(QueueProc)
    \/ \E b \in 1..MaxBusRequests : CancelBusBookingGet(QueueProc, b)
    \/ CancelBookingSave(QueueProc)
    \/ ReleaseSeats(QueueProc)
    \/ \E b \in 1..MaxBusRequests : ConfirmBookings(b)

InitBusDates == BusStart /\ CarStart /\ TrainStart /\ CallStart /\ HotelStart(1, 0, 1)

SpecBusDates == InitBusDates /\ [][NextBusDates]_vars

\* ---------------------------------------------------------------------
\* block_seats, the booking requests of one client, and the passing of time
\* ---------------------------------------------------------------------
\* the default of block_duration_minutes
BlockDurationMinutes == 15
BlockDurations == {5, BlockDurationMinutes}

\* SeatManager.block_seats: one UPDATE of the rows that are neither booked
\* nor blocked, which waits for the row locks of open transactions; the
\* duration is written to the log only
BlockSeats(seat_numbers, block_duration_minutes) ==
    LET seats == BusFreeRows(seat_numbers)
    IN  /\ BusSeatLockHolders(seats) = {}
        /\ bus_seats' = [s \in BusSeatNumbers |->
                             IF s \in seats THEN [bus_seats[s] EXCEPT !.is_blocked = TRUE]
                             ELSE bus_seats[s]]
        /\ block' = [s \in BusSeatNumbers |->
                         IF s \in seats
                         THEN [called |-> TRUE, at |-> clock,
                               block_duration_minutes |-> block_duration_minutes]
                         ELSE block[s]]
        /\ UNCHANGED <<clock, not_block>>

\* a minute passes
Tick ==
    /\ clock < MaxMinutes
    /\ clock' = clock + 1
    /\ UNCHANGED <<block, bus_vars, hotel_vars, room_vars, car_vars, train_vars, refund_vars,
                   limit_vars, confirm_vars, cancel_vars, payment_vars, wallet_vars>>

NextBlock ==
    \/ \E seat_numbers \in SeatLists, block_duration_minutes \in BlockDurations :
          BlockSeats(seat_numbers, block_duration_minutes)
    \/ Tick
    \/ \E seat_numbers \in SeatLists : BookSeatsBegin(QueueProc, seat_numbers, Today)
    \/ BookSeatsLockBus(QueueProc)
    \/ BookSeatsSelect(QueueProc)
    \/ BookSeatsUpdate(QueueProc)
    \/ FormValidCreateBusBooking(QueueProc)
    \/ FormInvalidBus(QueueProc)

InitBlock == BusStart /\ CarStart /\ TrainStart /\ CallStart /\ HotelStart(1, 0, 1)

SpecBlock == InitBlock /\ [][NextBlock]_vars

\* every step that can be taken is taken in the end: time passes, requests
\* are served
SpecBlockFair == SpecBlock /\ WF_vars(NextBlock)

\* C1: between two releases of a seat, at most one book_seats call that
\* names the seat returns success, whatever the interleaving of the calls.
C1_SeatGrantedAtMostOnce ==
    \A s \in RequestSeatNumbers : bus_grants[s] <= 1

\* a request was granted a seat while a concurrent request for it was refused
C1_Witness ==
    \E p \in Procs, q \in Procs, s \in BusSeatNumbers :
        /\ p # q
        /\ bus_pc[p] = "fv_create" /\ s \in bus_req[p].seats
        /\ bus_pc[q] = "fv_invalid" /\ bus_req[q].success = "no" /\ s \in bus_req[q].seats
        /\ bus_req[q].travel_date >= Today /\ bus_req[q].overlapped

RECURSIVE SumRooms(_)
SumRooms(ids) ==
    IF ids = {} THEN 0
    ELSE LET b == CHOOSE x \in ids : TRUE IN bookings[b].rooms + SumRooms(ids \ {b})

\* the bookings create_booking has returned success for
CreatedBookings == {b \in Procs : bookings[b].service_type = "HOTEL"}

\* C2: the rooms of the create_booking calls that succeeded never add up to
\* more than the available_rooms the row started with, and available_rooms
\* is never negative, whatever the interleaving.
C2_NoOverbooking ==
    /\ SumRooms(CreatedBookings) <= hotel_room0
    /\ hotel_room.available_rooms >= 0

\* a create_booking succeeded and an overlapping one was refused for lack of rooms
C2_Witness ==
    \E p \in Procs, q \in Procs :
        /\ p # q
        /\ hotel_pc[p] = "created" /\ hotel_pc[q] = "failed"
        /\ hotel_req[q].kind = "create"
        /\ hotel_req[q].nights > 0 /\ hotel_req[q].overlapped
        /\ hotel_req[q].rooms <= hotel_room0

\* a cancel_booking call was made for booking b and found it
CancelCalled(b) ==
    \E q \in Procs : /\ hotel_req[q].kind = "cancel" /\ hotel_req[q].booking = b
                     /\ hotel_req[q].rooms > 0

\* the created bookings that were not cancelled
NotCancelled == {b \in CreatedBookings : ~CancelCalled(b)}

\* C3: once the create_booking and cancel_booking calls made on the room
\* have returned, available_rooms is its initial value minus the rooms of
\* the bookings that were created and not cancelled afterwards (the booking
\* made before the calls is left alone).
C3_RestoredOnCancellation ==
    (InHotelService = {} /\ ~CancelCalled(0)) =>
        hotel_room.available_rooms = hotel_room0 - SumRooms(NotCancelled)

\* ---- serial executions of the calls the requests made
Called == {p \in Procs : hotel_req[p].kind # "none"}
Orders(S) == {o \in [1..Cardinality(S) -> S] : \A i, j \in DOMAIN o : o[i] = o[j] => i = j}

\* rooms of booking b in a serial execution
BookingRooms(b) == IF b = 0 THEN bookings[0].rooms ELSE hotel_req[b].rooms

\* the call of request p, run alone from state st
SerialStep(st, p) ==
    LET r == hotel_req[p]
    IN  IF r.kind = "create"
        THEN IF st.available_rooms >= r.rooms /\ r.nights > 0
             THEN [available_rooms |-> ReserveRooms(st.available_rooms, r.rooms),
                   existing |-> st.existing \cup {p}]
             ELSE st
        ELSE IF r.booking \in st.existing /\ CancelBookingOutcome = "released"
             THEN [available_rooms |-> ReleaseRooms(st.available_rooms, hotel_room.total_rooms,
                                                    BookingRooms(r.booking)),
                   existing |-> st.existing]
             ELSE st

RECURSIVE SerialRun(_, _, _)
SerialRun(st, order, i) ==
    IF i > Len(order) THEN st ELSE SerialRun(SerialStep(st, order[i]), order, i + 1)

SerialStart == [available_rooms |-> hotel_room0,
                existing |-> IF bookings[0].service_type = "HOTEL" THEN {0} ELSE {}]

SerialResults == {SerialRun(SerialStart, o, 1).available_rooms : o \in Orders(Called)}

C4_RoomsWithinBounds ==
    /\ 0 <= hotel_room.available_rooms
    /\ hotel_room.available_rooms <= hotel_room.total_rooms
    /\ \A i \in 1..Len(room_log) :
          (room_log[i].op = "reserve_rooms" /\ room_log[i].count > room_log[i].before) =>
              /\ ~room_log[i].returned
              /\ (IF i = Len(room_log) THEN hotel_room.available_rooms
                                       ELSE room_log[i + 1].before) = room_log[i].before

\* a reserve_rooms was refused and a release_rooms was given more rooms than were out
C4_Witness ==
    \E i, j \in 1..Len(room_log) :
        /\ room_log[i].op = "reserve_rooms" /\ room_log[i].count > room_log[i].before
        /\ room_log[j].op = "release_rooms"
        /\ room_log[j].before + room_log[j].count > hotel_room.total_rooms
        /\ hotel_room.available_rooms = hotel_room.total_rooms

\* ---------------------------------------------------------------- car claims
CarBookingsOf(c) == {b \in Procs : bookings[b].service_type = "CAR" /\ bookings[b].service_id = c}

\* C5: of the concurrent form_valid requests for a car that is AVAILABLE at
\* most one creates a Booking for it.
C5_OneBookingPerCar ==
    \A c \in CarIds : Cardinality(CarBookingsOf(c)) <= 1

\* C9: when cancel_booking_view runs Booking.cancel on a booking that can be
\* cancelled, a car booking's car goes back to AVAILABLE and a hotel
\* booking's rooms go back to available_rooms.
C9_CancelReleasesInventory ==
    [][\A p \in Procs :
          (car_pc[p] = "cv_cancel" /\ car_pc'[p] # "cv_cancel" /\ car_req'[p].can_cancel) =>
              LET bk == bookings[car_req[p].booking]
              IN  /\ bk.service_type = "CAR" => cars'[bk.service_id] = "AVAILABLE"
                  /\ bk.service_type = "HOTEL" =>
                        hotel_room'.available_rooms = hotel_room.available_rooms + bk.rooms]_vars

\* -------------------------------------------------------------- train claims
\* C10: whatever the interleaving of the book_seats calls on the train, no
\* seat is named by two calls that return success.
C10_TrainSeatGrantedOnce ==
    \A s \in TrainSeatNumbers : train_grants[s] <= 1

\* a book_seats was granted a seat and an overlapping call for the same
\* seat, journey and date was refused
C10_Witness ==
    \E p \in Procs, q \in Procs, s \in TrainSeatNumbers :
        /\ p # q
        /\ train_pc[p] = "tb_create" /\ s \in train_req[p].seats
        /\ train_grants[s] = 1
        /\ train_pc[q] = "tb_fallback" /\ s \in train_req[q].seats
        /\ train_req[q].travel_date = train_req[p].travel_date
        /\ train_req[q].travel_date >= Today
        /\ train_req[q].overlapped

C11_RefundTable ==
    refund.called =>
        /\ ~refund.raised
        /\ refund.refund_x2 <= 2 * refund.total_amount
        /\ refund.refund_x2 =
              (IF refund.hours_before >= FreeCancellationHours(refund.service_type)
               THEN 2 * refund.total_amount
               ELSE IF refund.hours_before >= PartialRefundHours(refund.service_type)
               THEN refund.total_amount
               ELSE 0)

\* C16: for a BUS booking calculate_refund_amount returns total_amount when
\* hours_before >= 4 and 0 when hours_before < 4, never half.
C16_BusNoPartialRefund ==
    (refund.called /\ refund.service_type = "BUS") =>
        /\ ~refund.raised
        /\ refund.refund_x2 = (IF refund.hours_before >= 4 THEN 2 * refund.total_amount ELSE 0)

\* ------------------------------------------------------- RAC and waitlist
\* the bookings of the journey of booking b that have its status
SamePlace(b) ==
    {c \in TrainBookingIds \ {b} :
        /\ train_bookings[c].status = train_bookings[b].status
        /\ train_bookings[c].from_sequence = train_bookings[b].from_sequence
        /\ train_bookings[c].to_sequence = train_bookings[b].to_sequence
        /\ train_bookings[c].travel_date = train_bookings[b].travel_date}

WasConfirmed(c) ==
    train_bookings[c].status = "CANCELLED" /\ train_bookings[c].position = 0

RacOnlyCancelled ==
    [][\A b \in TrainBookingIds :
          train_bookings[b].status \in {"RAC", "WAITLIST"} =>
              train_bookings'[b].status \in {train_bookings[b].status, "CANCELLED"}]_vars

\* C17: the number of RAC bookings of a journey never exceeds rac_limit and
\* the number of WAITLIST bookings never exceeds waitlist_limit; once both
\* are full the answer is NOT_AVAILABLE.
C17_LimitsBoundQueues ==
    /\ journey.rac_bookings <= RacLimit
    /\ journey.waitlist_bookings <= WaitlistLimit
    /\ \A num_passengers \in 1..MaxPassengers :
          (/\ journey.confirmed_bookings >= CoachCapacity
           /\ journey.rac_bookings >= RacLimit
           /\ journey.waitlist_bookings >= WaitlistLimit) =>
              RacOrWaitlist(journey.confirmed_bookings, journey.rac_bookings,
                            journey.waitlist_bookings, num_passengers).status
                  = "NOT_AVAILABLE"

\* ---------------------------------------------------------- hotel failures
\* C14: a create_booking or cancel_booking call that returns success = False
\* leaves the Booking rows and the HotelRoom's available_rooms as they were:
\* every step that writes one of them belongs to a call that succeeds.
C14_FailureWritesNothing ==
    [][(bookings' # bookings \/ hotel_room' # hotel_room) =>
          \E p \in Procs : /\ hotel_pc'[p] # hotel_pc[p]
                           /\ hotel_pc'[p] \in {"created", "cancelled"}]_vars

\* a cancel_booking call that found its booking and failed part-way, and a
\* create_booking call refused for its nights
C14_Witness ==
    \E p \in Procs, q \in Procs :
        /\ hotel_pc[p] = "failed" /\ hotel_req[p].kind = "cancel" /\ hotel_req[p].rooms > 0
        /\ hotel_pc[q] = "failed" /\ hotel_req[q].kind = "create" /\ hotel_req[q].nights <= 0

\* ------------------------------------------------------------- bus seats
\* the seats of the request of p that book_seats cannot give
BusUnavailable(p) ==
    {s \in bus_req[p].seats :
        \/ s \notin BusSeatNumbers
        \/ bus_seats[s].is_booked
        \/ bus_seats[s].is_blocked}

C19_AvailabilityPerDate ==
    (\A p \in Procs : bus_pc[p] = "idle") =>
        \A travel_date \in BusTravelDates, s \in BusSeatNumbers :
            ~bus_seats[s].is_blocked =>
                (s \in AvailableSeatsForDate(travel_date)
                    <=> ~\E b \in 1..Len(bus_bookings) :
                            /\ s \in bus_bookings[b].seats_booked
                            /\ bus_bookings[b].travel_date = travel_date
                            /\ bus_bookings[b].status \in {"CONFIRMED", "PENDING"})

\* ---------------------------------------------------------- confirmation
\* the calls on booking b that returned success
ConfirmedBy(b) == {p \in Procs : confirm[p].booking = b /\ confirm[p].result = "success"}

\* C20: the status of a booking becomes CONFIRMED only through a call that
\* succeeds, of the calls on one booking at most one succeeds (exactly one
\* once the booking is CONFIRMED), and each success of confirm_booking
\* writes one PENDING -> CONFIRMED history entry.
C20_ConfirmedOnlyOnce ==
    \A b \in BookingIds :
        /\ Cardinality(ConfirmedBy(b)) <= 1
        /\ bookings[b].status = "CONFIRMED" <=> Cardinality(ConfirmedBy(b)) = 1
        /\ history[b] = Cardinality({p \in ConfirmedBy(b) : confirm[p].kind = "confirm_booking"})

\* ---------------------------------------------------------- train segments
\* the bookings that hold seat s on the travel date for stops that overlap
\* [from_sequence, to_sequence)
HoldersOnSegment(s, from_sequence, to_sequence, travel_date) ==
    {b \in TrainBookingIds :
        /\ s \in train_bookings[b].seats_booked
        /\ train_bookings[b].travel_date = travel_date
        /\ train_bookings[b].status \in {"CONFIRMED", "RAC", "PENDING"}
        /\ train_bookings[b].from_sequence < to_sequence
        /\ train_bookings[b].to_sequence > from_sequence}

\* C18: book_seats refuses a seat for a segment that overlaps one the seat
\* is booked for on that date and grants it for a segment that overlaps
\* none, so two bookings of a seat on one date both succeed exactly when
\* their segments do not overlap.
C18_SegmentAvailability ==
    [][\A p \in Procs :
          (/\ train_pc[p] = "tb_check" /\ train_pc'[p] # "tb_check"
           /\ train_req[p].travel_date >= Today
           /\ \A s \in train_req[p].seats :
                 s \in TrainSeatNumbers /\ ~train_seats[s].is_blocked)
             => (train_pc'[p] = "tb_update"
                    <=> \A s \in train_req[p].seats :
                           HoldersOnSegment(s, train_req[p].from_sequence,
                                            train_req[p].to_sequence,
                                            train_req[p].travel_date) = {})]_vars

\* ---------------------------------------------------------- Booking.cancel
\* C21: Booking.cancel returns only when the status of the booking is
\* PENDING, CONFIRMED, RAC or WAITLISTED and the service date is at least a
\* day ahead; otherwise it raises ValueError, and status, cancellation_date
\* and refund_amount stay as they are.  A CANCELLED booking is not
\* cancelled again.
C21_CancelOnlyWhileCanCancel ==
    [][\A p \in Procs :
          (cancel[p].pc = "loaded" /\ cancel'[p].pc = "done") =>
              LET can_cancel == /\ cancel[p].status \in {"PENDING", "CONFIRMED", "RAC",
                                                          "WAITLISTED"}
                                /\ cancel'[p].days_before >= 1
              IN  /\ cancel'[p].result = "returned" => can_cancel
                  /\ ~can_cancel =>
                         /\ cancel'[p].result = "ValueError"
                         /\ bookings' = bookings
                         /\ cancellation' = cancellation]_vars

\* a booking that an earlier call cancelled, read again with its service
\* date a day ahead, and the second cancel call ended in ValueError
C21_Witness ==
    \E p \in Procs :
        /\ cancel[p].result = "ValueError"
        /\ cancel[p].status = "CANCELLED"
        /\ cancel[p].days_before >= 1
        /\ cancellation[cancel[p].booking].cancellation_date = "SET"

\* ------------------------------------------------------------ Payment refunds
\* C22: initiate_refund creates no Refund row unless the payment is COMPLETED
\* and the amount is at most the payment amount; the amounts of the Refund
\* rows of one payment never sum to more than the payment amount, whatever
\* the calls and their interleaving; and once no call is under way the
\* status is REFUNDED exactly when the full amount was refunded and
\* PARTIALLY_REFUNDED when less was.
C22_RefundsWithinPayment ==
    /\ SumAmounts(refunds) <= payment.amount
    /\ (\A p \in Procs : refund_request[p].pc # "created") /\ refunds # <<>> =>
           /\ payment.status = "REFUNDED" <=> SumAmounts(refunds) = payment.amount
           /\ payment.status = "PARTIALLY_REFUNDED" <=> SumAmounts(refunds) < payment.amount

\* every Refund row was created by a call that read the payment as COMPLETED
\* and asked for no more than the payment amount
RefundRowsFromCompleted ==
    [][\A p \in Procs :
          Len(refunds') > Len(refunds) /\ refund_request'[p].pc = "created"
          /\ refund_request[p].pc = "loaded" =>
              /\ refund_request[p].status = "COMPLETED"
              /\ refund_request'[p].refund_amount <= payment.amount]_vars

\* --------------------------------------------------------------- the wallet
\* a step in which request p called credit or debit on its Wallet instance
WalletCalled(p) ==
    /\ wallet_call[p].pc \in {"loaded", "done"}
    /\ wallet_call'[p].pc = "done"
    /\ wallet_call'[p] # wallet_call[p]

\* C23: the wallet balance is never negative; a debit of more than the
\* balance or of an amount that is not positive, and a credit of an amount
\* that is not positive, raise ValueError, leave the balance as it was and
\* write no WalletTransaction; every other credit or debit changes the
\* balance by exactly the amount and records one WalletTransaction whose
\* balance_after is the new balance and whose balance_before is the balance
\* before the operation.
C23_WalletBalance ==
    /\ [](wallet.balance >= 0)
    /\ [][\A p \in Procs : WalletCalled(p) =>
             LET before == wallet_call[p].balance
                 after == wallet_call'[p].balance
                 amount == wallet_call'[p].amount
                 refused == \/ amount <= 0
                            \/ wallet_call'[p].method = "debit" /\ amount > before
             IN  IF refused
                 THEN /\ wallet_call'[p].result = "ValueError"
                      /\ after = before
                      /\ wallet' = wallet
                      /\ wallet_transactions' = wallet_transactions
                 ELSE /\ wallet_call'[p].result = "returned"
                      /\ after = IF wallet_call'[p].method = "credit"
                                 THEN before + amount ELSE before - amount
                      /\ wallet'.balance = after
                      /\ Len(wallet_transactions') = Len(wallet_transactions) + 1
                      /\ LET t == wallet_transactions'[Len(wallet_transactions')]
                         IN  /\ t.balance_after = after
                             /\ t.balance_before = before
                             /\ t.amount = amount]_vars

\* a debit that was recorded, and then a debit of more than the balance
\* that ended in ValueError
C23_Witness ==
    \E p \in Procs :
        /\ wallet_call[p].method = "debit"
        /\ wallet_call[p].result = "ValueError"
        /\ wallet_call[p].amount > wallet_call[p].balance
        /\ wallet.balance = wallet_call[p].balance
        /\ wallet_transactions # <<>>
        /\ wallet_transactions[Len(wallet_transactions)].transaction_type = "DEBIT"
        /\ wallet_transactions[Len(wallet_transactions)].balance_after = wallet.balance

\* --------------------------------------------------------------- seat blocks
\* book_seats does not book a seat that is blocked
BlockedSeatNotBooked ==
    [][\A s \in BusSeatNumbers :
          bus_seats[s].is_blocked => bus_seats'[s].is_booked = bus_seats[s].is_booked]_vars

\* a seat that block_seats blocked, with more than the block duration gone
\* since the call
BlockExpired(s) ==
    /\ block[s].called
    /\ bus_seats[s].is_blocked
    /\ clock > block[s].at + block[s].block_duration_minutes

BlockNeverCleared ==
    [][\A s \in BusSeatNumbers : bus_seats[s].is_blocked => bus_seats'[s].is_blocked]_vars

====
